---- MODULE Spec2Model ----
(***************************************************************************)
(* The conversation engine of hgraph-agent (src/src/agent/agent.ts): the   *)
(* turn loop of Agent.runWithStream, the dispatcher Agent.executeToolCall  *)
(* and the agent-as-tool wrapper createAgentTool (src/src/tool/            *)
(* agent.tool.ts).                                                         *)
(*                                                                         *)
(* An invocation of runWithStream is an async generator.  It is modelled   *)
(* as a record whose pc names the source line of the yield or await at     *)
(* which the generator is suspended; one action runs the generator from    *)
(* one suspension point to the next.  The model adapter and the tools are  *)
(* the environment: their answers are drawn from small sets.               *)
(***************************************************************************)
EXTENDS Integers, Sequences, FiniteSets, TLC

VARIABLES
    tools,                  \* Agent.tools, per agent: name -> ToolFunction
    conversationHistory,    \* Agent.conversationHistory, per agent
    inv,                    \* the runWithStream generators created so far
    issued,                 \* every ToolCall built at agent.ts:129, with what its dispatch emitted
    nextId                  \* source of generateId() / Date.now()+Math.random()

vars == <<tools, conversationHistory, inv, issued, nextId>>

---------------------------------------------------------------------------
(* Bounds of the model *)

MaxRuns == 2        \* run/runWithStream invocations made by the application
MaxTurnsOpt == 2    \* the application passes maxTurns in 0..MaxTurnsOpt
MaxCalls == 2       \* function calls in one model response
MaxIssued == 2      \* tool calls the model requests over the whole behaviour
MaxChunks == 1      \* messages a streaming tool yields before it ends
MaxConcurrentTurns == 1     \* maxTurns of invocations that overlap
MaxConcurrentIssued == 1    \* tool calls issued by invocations that overlap

(* Program constants *)

DefaultMaxTurns == 150

---------------------------------------------------------------------------
(* Values *)

Agents == {"main", "sub"}

Undefined == "undefined"

Instruction(a) == IF a = "main" THEN "You are helpful." ELSE "You are a helper."

ConcludeSuffix == " Conclude your response without making any function calls."

\* An Error value: its class name and its message.
Err(name, message) == [name |-> name, message |-> message]

\* `${error}`: Error.prototype.toString
ErrString(e) == e.name \o ": " \o e.message

\* generateId(): a fresh identifier
generateId(n) == "id-" \o ToString(n)

\* createAssistantMessage(type, content, threadId); the event's own id is
\* not modelled, no handler reads it.
createAssistantMessage(type, content, threadId) ==
    [type |-> type, content |-> content, threadId |-> threadId]

\* createUserMessage(content, threadId?)
createUserMessage(id, content, threadId) ==
    [id |-> id, role |-> "user", content |-> content,
     threadId |-> threadId, tool_call_id |-> Undefined]

\* ToolCall.arguments: a key -> JSON literal mapping (at most one key here).
NoArgs == [k \in {} |-> ""]

NumberLiterals == {"21", "1"}

StringLiterals == {"\"oops\"", "\"go\""}

\* JSON.stringify(toolCall.arguments)
JSONstringify(args) ==
    IF DOMAIN args = {} THEN "{}"
    ELSE LET k == CHOOSE k \in DOMAIN args : TRUE
         IN  "{\"" \o k \o "\":" \o args[k] \o "}"

\* A zod object schema with the keys it requires and the type of each; the
\* empty schema accepts every mapping.
ZObject(keys, type) == [keys |-> keys, type |-> type]

\* a schema check that accepts every mapping
ParseAnything(schema, args) == TRUE

\* tool.parameters.parse(args): TRUE when zod accepts the arguments
ParseOk(schema, args) ==
    \A k \in schema.keys :
        /\ k \in DOMAIN args
        /\ args[k] \in (IF schema.type = "number" THEN NumberLiterals ELSE StringLiterals)

\* the ZodError parse throws otherwise
ParseError(schema, args) ==
    Err("ZodError", "Expected " \o schema.type)

\* what parse returns: zod strips the keys the schema does not name
Validated(schema, args) == [k \in schema.keys |-> args[k]]

\* The text of a JSON string literal: the literal without its quotes.
Unquote(lit) == IF lit = "\"go\"" THEN "go" ELSE "oops"

(* ToolFunction values (src/unnamed/part_002): which of run and
   runWithStream the object has, its schema, and, for a tool built by
   createAgentTool, the agent it wraps. *)
AgentAsToolSchema == ZObject({"message"}, "string")

ToolFunction(hasRun, hasStream, parameters) ==
    [run |-> hasRun, runWithStream |-> hasStream,
     parameters |-> parameters, agent |-> Undefined]

createAgentTool(agent) ==
    [run |-> FALSE, runWithStream |-> TRUE,
     parameters |-> AgentAsToolSchema, agent |-> agent]

\* Agent.addTool, agent.ts:28-30: Map.set adds the name or replaces its tool
addTool(registry, name, toolFunction) == (name :> toolFunction) @@ registry

\* The registries after the application's addTools calls.
InitialTools ==
    [a \in Agents |->
        IF a = "main"
        THEN ("double" :> ToolFunction(TRUE, FALSE, ZObject({"n"}, "number")))
          @@ ("countdown" :> ToolFunction(FALSE, TRUE, ZObject({"start"}, "number")))
          @@ ("broken" :> ToolFunction(FALSE, FALSE, ZObject({}, "any")))
          @@ ("helper" :> createAgentTool("sub"))
        ELSE [n \in {} |-> Undefined]]

---------------------------------------------------------------------------
(* The environment: what the application passes, what the model answers,
   what the tools do. *)

\* messages arguments of run/runWithStream, as (role, content) pairs
Inputs(a) ==
    { <<>>,
      << <<"user", "Hi">> >>,
      << <<"user", Instruction(a)>>, <<"user", "Hi">> >> }

\* the threadId the application gives its own messages
CallerThread == "thread-1"

\* FunctionCall values the model may put in a response
FunctionCalls ==
    { [name |-> "double", args |-> [n |-> "21"]],
      [name |-> "double", args |-> [n |-> "\"oops\""]],
      [name |-> "countdown", args |-> [start |-> "1"]],
      [name |-> "broken", args |-> NoArgs],
      [name |-> "missing", args |-> NoArgs],
      [name |-> "helper", args |-> [message |-> "\"go\""]] }

CallLists == UNION { [1..n -> FunctionCalls] : n \in 1..MaxCalls }

\* addTool calls the application may make later: (agent, name, toolFunction)
LaterTools ==
    { <<"main", "missing", ToolFunction(TRUE, FALSE, ZObject({}, "any"))>>,
      <<"main", "Missing", ToolFunction(TRUE, FALSE, ZObject({}, "any"))>>,
      <<"main", "double", ToolFunction(FALSE, TRUE, ZObject({"n"}, "number"))>>,
      <<"sub", "missing", ToolFunction(TRUE, FALSE, ZObject({}, "any"))>> }

\* the function calls a response to the forced prompt may still carry
ForcedCallLists == {<<>>, <<[name |-> "double", args |-> [n |-> "21"]]>>}

\* result.response.text(): the text is opaque to the engine, so one text per
\* value of the id counter is enough to tell the model's answers apart.
Text(n) == "answer " \o ToString(n)

\* failures of the adapter and of a tool body
AdapterError == Err("Error", "fetch failed")

ToolErrors == {Err("Error", "timed out"), Err("ZodError", "bad value")}

StreamErrors == {Err("Error", "timed out")}

\* what a buffered tool resolves with, what a streaming tool returns
ToolResult == "42"

StreamResult == "Countdown complete!"

\* the types of the messages a streaming tool yields
ChunkTypes == {"log", "error", "final_response"}

---------------------------------------------------------------------------
(* The state the handlers work on, as one value: the generators, the
   histories and the record of issued tool calls. *)

Cur == [inv |-> inv, hist |-> conversationHistory, iss |-> issued]

Commit(s) ==
    /\ inv' = s.inv
    /\ conversationHistory' = s.hist
    /\ issued' = s.iss

NoError == Err("", "")

NoToolCall == [id |-> Undefined, name |-> Undefined, arguments |-> NoArgs, threadId |-> Undefined]

Last(q) == q[Len(q)]

\* Array.prototype.slice(0, -1)
SliceButLast(q) == SubSeq(q, 1, Len(q) - 1)

\* Agent.ensureInstruction, for a non-empty messages array
ensureInstruction(a, messages, threadId) ==
    IF messages[1].role = "user" /\ messages[1].content = Instruction(a)
    THEN messages
    ELSE << [id |-> "system-prompt", role |-> "user", content |-> Instruction(a),
             threadId |-> threadId, tool_call_id |-> Undefined] >> \o messages

\* `${toolCall.name} (${JSON.stringify(toolCall.arguments)})`
toolSignature(toolCall) ==
    toolCall.name \o " (" \o JSONstringify(toolCall.arguments) \o ")"

\* executeToolCall's catch block, agent.ts:80-87
CatchMessage(toolCall, error) ==
    IF error.name = "ZodError"
    THEN "Error: Invalid arguments for " \o toolSignature(toolCall) \o ": " \o error.message
    ELSE "Error executing " \o toolSignature(toolCall) \o ": " \o ErrString(error)

\* a filter that lets every event through, whatever its type
IsAnyType(type) == TRUE

\* The types runWithStream turns into a tool-role history entry, agent.ts:137-140
IsToolResponse(type) == type = "final_response" \/ type = "error"

\* OnToolResponse that stores the tool message at the position a history
\* length read earlier points to, in place of the entry found there
OnToolResponseOverwriting(s, p, ev) ==
    LET r == s.inv[p]
        finalResponse == [id |-> r.toolCall.id, role |-> "tool", content |-> ev.content,
                          threadId |-> r.threadId, tool_call_id |-> r.toolCall.id]
        s1 == [s EXCEPT !.iss[r.cur].events = Append(@, ev)]
        at == Len(s.hist[r.agent])
    IN  IF IsToolResponse(ev.type)
        THEN [s1 EXCEPT !.hist[r.agent] = [@ EXCEPT ![at] = finalResponse],
                        !.inv[p].wrote = @ \cup {at}]
        ELSE s1

\* OnToolResponse with the tool message filed under the event's own thread
\* instead of the run's
OnToolResponseEventThread(s, p, ev) ==
    LET r == s.inv[p]
        finalResponse == [id |-> r.toolCall.id, role |-> "tool", content |-> ev.content,
                          threadId |-> ev.threadId, tool_call_id |-> r.toolCall.id]
        s1 == [s EXCEPT !.iss[r.cur].events = Append(@, ev)]
    IN  IF IsToolResponse(ev.type)
        THEN [s1 EXCEPT !.hist[r.agent] = Append(@, finalResponse),
                        !.inv[p].wrote = @ \cup {Len(s.hist[r.agent]) + 1}]
        ELSE s1

\* agent.ts:136-151, the body of the loop over executeToolCall's events, run
\* by generator p for event ev: a final_response or error event becomes a
\* tool-role message pushed on the history; nothing is yielded.
OnToolResponse(s, p, ev) ==
    LET r == s.inv[p]
        finalResponse == [id |-> r.toolCall.id, role |-> "tool", content |-> ev.content,
                          threadId |-> r.threadId, tool_call_id |-> r.toolCall.id]
        s1 == [s EXCEPT !.iss[r.cur].events = Append(@, ev)]
    IN  IF IsToolResponse(ev.type)
        THEN [s1 EXCEPT !.hist[r.agent] = Append(@, finalResponse),
                        !.inv[p].wrote = @ \cup {Len(s.hist[r.agent]) + 1}]
        ELSE s1

RECURSIVE YieldEv(_, _, _)
RECURSIVE ToolCompleted(_, _)

\* Generator i yields ev.  The application collects it; the generator of a
\* wrapped agent yields to createAgentTool's loop (agent.tool.ts:28-34), which
\* returns on a final_response (closing the generator) and re-yields every
\* other message through executeToolCall (agent.ts:73-75) to the caller's loop.
YieldEv(s, i, ev) ==
    LET r == s.inv[i]
        s1 == [s EXCEPT !.inv[i].events = Append(@, ev)]
    IN  IF r.parent = 0 THEN s1
        ELSE IF ev.type = "final_response"
        THEN ToolCompleted([s1 EXCEPT !.inv[i].status = "closed",
                                      !.iss[s.inv[r.parent].cur].ret = ev.content],
                           r.parent)
        ELSE OnToolResponse(s1, r.parent, ev)

\* ToolCompleted without the completion log
ToolCompletedSilently(s, p) ==
    [s EXCEPT !.inv[p].pc = "L152", !.inv[p].child = 0, !.iss[s.inv[p].cur].done = TRUE]

\* executeToolCall is exhausted: agent.ts:152-156 yields the completion log
ToolCompleted(s, p) ==
    LET r == s.inv[p]
        s1 == [s EXCEPT !.inv[p].pc = "L152", !.inv[p].child = 0,
                        !.iss[r.cur].done = TRUE]
    IN  YieldEv(s1, p, createAssistantMessage("log",
                    "Calling tool " \o r.toolCall.name \o " completed.", r.threadId))

\* ToolThrows without executeToolCall's catch block: the error leaves the
\* generator
ToolThrowsUncaught(s, p, error) ==
    [s EXCEPT !.inv[p].status = "threw", !.inv[p].error = error]

\* the tool body of generator p's current call throws error: agent.ts:80-88
ToolThrows(s, p, error) ==
    LET r == s.inv[p]
    IN  ToolCompleted(
            OnToolResponse(s, p, createAssistantMessage("error",
                               CatchMessage(r.toolCall, error), r.toolCall.threadId)),
            p)

\* Generator i ends by throwing error.  Thrown inside a wrapped agent, the
\* error passes through createAgentTool's generator into executeToolCall's
\* catch block of the calling generator.
ThrowOut(s, i, error) ==
    LET r == s.inv[i]
        s1 == [s EXCEPT !.inv[i].status = "threw", !.inv[i].error = error]
    IN  IF r.parent = 0 THEN s1 ELSE ToolThrows(s1, r.parent, error)

\* Generator i returns this.conversationHistory (agent.ts:169, 194); a wrapped
\* agent that returns without a final_response makes createAgentTool return
\* its fallback string (agent.tool.ts:35).
ReturnOut(s, i) ==
    LET r == s.inv[i]
        s1 == [s EXCEPT !.inv[i].status = "returned",
                        !.inv[i].retval = s.hist[r.agent]]
    IN  IF r.parent = 0 THEN s1
        ELSE ToolCompleted(
                [s1 EXCEPT !.iss[s.inv[r.parent].cur].ret =
                               "Error: Agent did not return a final response."],
                r.parent)

\* LoopHead with the loop test off by one (turn <= maxTurns)
LoopHeadOffByOne(s, i) ==
    LET r == s.inv[i]
    IN  IF r.turn <= r.maxTurns
        THEN YieldEv([s EXCEPT !.inv[i].pc = "L117"], i,
                     createAssistantMessage("log", "Thinking...", r.threadId))
        ELSE YieldEv([s EXCEPT !.inv[i].pc = "L176"], i,
                     createAssistantMessage("warn", "Maximum turns reached.", r.threadId))

\* agent.ts:115-117 and 176: the loop test, then the yield that follows it
LoopHead(s, i) ==
    LET r == s.inv[i]
    IN  IF r.turn < r.maxTurns
        THEN YieldEv([s EXCEPT !.inv[i].pc = "L117"], i,
                     createAssistantMessage("log", "Thinking...", r.threadId))
        ELSE YieldEv([s EXCEPT !.inv[i].pc = "L176"], i,
                     createAssistantMessage("warn", "Maximum turns reached.", r.threadId))

\* A generator object of runWithStream, before its body has run.  The last
\* fields are records kept about the generator: the events it yielded, the
\* messages it sent, the value it returned, the number of calls its forced
\* response carried, the history positions it wrote and the generators
\* of the same agent that were running when it started.
Generator(a, parent, maxTurns, before) ==
    [agent |-> a, parent |-> parent, maxTurns |-> maxTurns, before |-> before,
     threadId |-> Undefined, status |-> "running", pc |-> "L106", turn |-> 0,
     chat |-> <<>>, functionCalls |-> <<>>, call |-> 0, toolCall |-> NoToolCall,
     cur |-> 0, child |-> 0, chunks |-> 0, text |-> "", error |-> NoError,
     declared |-> {}, events |-> <<>>, sent |-> <<>>, retval |-> <<>>,
     ignored |-> 0, wrote |-> {}, during |-> {}]

\* StartGenerator that treats an empty messages array as a request to begin
\* with the instruction alone
StartGeneratorLenient(s, registry, a, parent, messages, maxTurns, id) ==
    LET i == Len(s.inv) + 1
        g == Generator(a, parent, maxTurns, s.hist[a])
        history == s.hist[a] \o
                       (IF messages = <<>>
                        THEN << [id |-> "system-prompt", role |-> "user",
                                 content |-> Instruction(a), threadId |-> id,
                                 tool_call_id |-> Undefined] >>
                        ELSE ensureInstruction(a, messages, id))
        started == [g EXCEPT !.threadId = id, !.chat = SliceButLast(history),
                             !.declared = DOMAIN registry]
        written == [started EXCEPT
                       !.wrote = (Len(s.hist[a]) + 1)..Len(history),
                       !.during = {j \in DOMAIN s.inv :
                                     /\ s.inv[j].status = "running"
                                     /\ s.inv[j].agent = a}]
    IN  LoopHead([s EXCEPT !.inv = Append(@, written), !.hist[a] = history], i)

\* agent.ts:106-117: runWithStream(messages, {maxTurns}) is called on agent a
\* by `parent` (0: the application) and run to its first yield; id is the
\* value generateId() returns at line 110, registry is this.tools, which
\* startChat turns into the session's function declarations.
StartGenerator(s, registry, a, parent, messages, maxTurns, id) ==
    LET i == Len(s.inv) + 1
        g == Generator(a, parent, maxTurns, s.hist[a])
    IN  IF messages = <<>>
        THEN \* messages[0].role: TypeError, before anything is written
             ThrowOut([s EXCEPT !.inv = Append(@, [g EXCEPT !.threadId = id])], i,
                      Err("TypeError", "Cannot read properties of undefined (reading 'role')"))
        ELSE LET history == s.hist[a] \o ensureInstruction(a, messages, id)
                 started == [g EXCEPT !.threadId = id, !.chat = SliceButLast(history),
                                      !.declared = DOMAIN registry]
                 written == [started EXCEPT
                                !.wrote = (Len(s.hist[a]) + 1)..Len(history),
                                !.during = {j \in DOMAIN s.inv :
                                              /\ s.inv[j].status = "running"
                                              /\ s.inv[j].agent = a}]
             IN  LoopHead([s EXCEPT !.inv = Append(@, written), !.hist[a] = history], i)

---------------------------------------------------------------------------
(* Actions *)

Init ==
    /\ tools = InitialTools
    /\ conversationHistory = [a \in Agents |-> <<>>]
    /\ inv = <<>>
    /\ issued = <<>>
    /\ nextId = 1

Running(i) == i \in DOMAIN inv /\ inv[i].status = "running"

At(i, pc) == Running(i) /\ inv[i].pc = pc

\* The application's messages: each built by createUserMessage (or by hand
\* with another role), ids taken from n on.
Messages(input, n) ==
    [k \in 1..Len(input) |->
        [createUserMessage(generateId(n + k - 1), input[k][2], CallerThread)
            EXCEPT !.role = input[k][1]]]

\* the application makes one call at a time
Serialized == \A j \in DOMAIN inv : inv[j].status # "running"

\* The application calls agent.runWithStream(messages, {maxTurns}) (directly
\* or through run, agent.ts:91-104) and pulls the first event.
Run(a, input, maxTurns) ==
    /\ Cardinality({j \in DOMAIN inv : inv[j].parent = 0}) < MaxRuns
    /\ Commit(StartGenerator(Cur, tools[a], a, 0, Messages(input, nextId), maxTurns,
                             generateId(nextId + Len(input))))
    /\ nextId' = nextId + Len(input) + 1
    /\ UNCHANGED tools

\* Send with the first history entry taken as the message
SendFirst(i) ==
    /\ At(i, "L117")
    /\ LET firstMessage == conversationHistory[inv[i].agent][1]
       IN  inv' = [inv EXCEPT ![i].pc = "L119", ![i].sent = Append(@, firstMessage)]
    /\ UNCHANGED <<tools, conversationHistory, issued, nextId>>

\* Send with the last user-role history entry taken as the message
SendUserMessage(i) ==
    /\ At(i, "L117")
    /\ LET h == conversationHistory[inv[i].agent]
           users == {n \in DOMAIN h : h[n].role = "user"}
           lastMessage == h[CHOOSE n \in users : \A m \in users : m <= n]
       IN  inv' = [inv EXCEPT ![i].pc = "L119", ![i].sent = Append(@, lastMessage)]
    /\ UNCHANGED <<tools, conversationHistory, issued, nextId>>

\* agent.ts:118-119: the generator is resumed after 'Thinking...', reads the
\* last history entry and awaits sendMessage
Send(i) ==
    /\ At(i, "L117")
    /\ LET lastMessage == Last(conversationHistory[inv[i].agent])
       IN  inv' = [inv EXCEPT ![i].pc = "L119", ![i].sent = Append(@, lastMessage)]
    /\ UNCHANGED <<tools, conversationHistory, issued, nextId>>

\* agent.ts:171-172: sendMessage rejects, the catch block yields the error
SendRejects(i, error) ==
    /\ At(i, "L119")
    /\ Commit(YieldEv([Cur EXCEPT !.inv[i].pc = "L172", !.inv[i].error = error], i,
                      createAssistantMessage("error", "Agent error: " \o ErrString(error),
                                             inv[i].threadId)))
    /\ UNCHANGED <<tools, nextId>>

\* Rethrow with the error swallowed: the loop goes on to its next turn
RethrowSwallowed(i) ==
    /\ At(i, "L172")
    /\ Commit(LoopHead([Cur EXCEPT !.inv[i].turn = @ + 1], i))
    /\ UNCHANGED <<tools, nextId>>

\* agent.ts:173: resumed after the error event, the generator throws
Rethrow(i) ==
    /\ At(i, "L172")
    /\ Commit(ThrowOut(Cur, i, Err("Error", "Agent error: " \o ErrString(inv[i].error))))
    /\ UNCHANGED <<tools, nextId>>

\* SendResolves that pushes the text of a response as an assistant message
\* even when the response requests function calls
SendResolvesKeepingText(i, text, calls) ==
    /\ At(i, "L119")
    /\ Len(issued) + Len(calls) <= MaxIssued
    /\ Len(calls) > 0 => inv[i].declared # {}
    /\ LET r == inv[i]
           assistantMessage == [id |-> "assistant-" \o ToString(nextId), role |-> "assistant",
                                content |-> text, threadId |-> r.threadId,
                                tool_call_id |-> Undefined]
           s1 == [Cur EXCEPT !.inv[i].functionCalls = calls, !.inv[i].call = 0,
                             !.inv[i].text = text]
       IN  IF Len(calls) > 0
           THEN Commit(YieldEv([s1 EXCEPT !.inv[i].pc = "L122",
                                          !.inv[i].wrote = @ \cup {Len(conversationHistory[r.agent]) + 1},
                                          !.hist[r.agent] = Append(@, assistantMessage)], i,
                    createAssistantMessage("log",
                        "Detected " \o ToString(Len(calls)) \o " function calls.",
                        r.threadId)))
           ELSE Commit(YieldEv([s1 EXCEPT !.inv[i].pc = "L159"], i,
                    createAssistantMessage("log", "Completed", r.threadId)))
    /\ UNCHANGED <<tools, nextId>>

\* agent.ts:120-126 and 158-159: sendMessage resolves; the branch on
\* functionCalls and the log event of either branch
SendResolves(i, text, calls) ==
    /\ At(i, "L119")
    /\ Len(issued) + Len(calls) <= MaxIssued
    \* gemini.model.ts:129-132, 175-179: with an empty registry the chat is
    \* started without function declarations, and the model requests none
    /\ Len(calls) > 0 => inv[i].declared # {}
    /\ LET s1 == [Cur EXCEPT !.inv[i].functionCalls = calls, !.inv[i].call = 0,
                             !.inv[i].text = text]
       IN  IF Len(calls) > 0
           THEN Commit(YieldEv([s1 EXCEPT !.inv[i].pc = "L122"], i,
                    createAssistantMessage("log",
                        "Detected " \o ToString(Len(calls)) \o " function calls.",
                        inv[i].threadId)))
           ELSE Commit(YieldEv([s1 EXCEPT !.inv[i].pc = "L159"], i,
                    createAssistantMessage("log", "Completed", inv[i].threadId)))
    /\ UNCHANGED <<tools, nextId>>

\* IterationIndex of a loop that walks functionCalls backwards
ReverseIndex(calls, n) == Len(calls) + 1 - n

\* agent.ts:128, `for (const call of functionCalls)`: the position in
\* functionCalls of the element the n-th iteration takes
IterationIndex(calls, n) == n

\* NextCall that does not wait for the tool body of the previous call
NextCallEager(i) ==
    /\ At(i, "L122") \/ At(i, "L152") \/ At(i, "L73") \/ At(i, "L77")
    /\ inv[i].call < Len(inv[i].functionCalls)
    /\ LET index == inv[i].call + 1
           call == inv[i].functionCalls[index]
           toolCall == [id |-> "call_" \o ToString(nextId), name |-> call.name,
                        arguments |-> call.args, threadId |-> inv[i].threadId]
           entry == [call |-> toolCall, by |-> i, turn |-> inv[i].turn, index |-> index,
                     of |-> Len(inv[i].functionCalls), events |-> <<>>,
                     ret |-> Undefined, ran |-> Undefined, done |-> FALSE]
       IN  Commit(YieldEv([Cur EXCEPT !.inv[i].pc = "L135", !.inv[i].call = @ + 1,
                                      !.inv[i].toolCall = toolCall,
                                      !.inv[i].cur = Len(issued) + 1,
                                      !.iss = Append(@, entry)], i,
                    createAssistantMessage("log", "Calling tool: " \o toolCall.name,
                                           inv[i].threadId)))
    /\ nextId' = nextId + 1
    /\ UNCHANGED tools

\* agent.ts:128-135: the next element of functionCalls becomes a ToolCall
NextCall(i) ==
    /\ At(i, "L122") \/ At(i, "L152")
    /\ inv[i].call < Len(inv[i].functionCalls)
    /\ LET index == IterationIndex(inv[i].functionCalls, inv[i].call + 1)
           call == inv[i].functionCalls[index]
           toolCall == [id |-> "call_" \o ToString(nextId), name |-> call.name,
                        arguments |-> call.args, threadId |-> inv[i].threadId]
           entry == [call |-> toolCall, by |-> i, turn |-> inv[i].turn, index |-> index,
                     of |-> Len(inv[i].functionCalls), events |-> <<>>,
                     ret |-> Undefined, ran |-> Undefined, done |-> FALSE]
       IN  Commit(YieldEv([Cur EXCEPT !.inv[i].pc = "L135", !.inv[i].call = @ + 1,
                                      !.inv[i].toolCall = toolCall,
                                      !.inv[i].cur = Len(issued) + 1,
                                      !.iss = Append(@, entry)], i,
                    createAssistantMessage("log", "Calling tool: " \o toolCall.name,
                                           inv[i].threadId)))
    /\ nextId' = nextId + 1
    /\ UNCHANGED tools

\* agent.ts:157 and 175: the calls of the turn are done, turn++
EndTurn(i) ==
    /\ At(i, "L152")
    /\ inv[i].call = Len(inv[i].functionCalls)
    /\ Commit(LoopHead([Cur EXCEPT !.inv[i].turn = @ + 1], i))
    /\ UNCHANGED <<tools, nextId>>

\* the registry as it was when the agents were set up
RegistryAtSetup(a) == InitialTools[a]

\* this.tools of agent a, read when executeToolCall runs (agent.ts:53)
Registry(a) == tools[a]

\* agent.ts:50-79: the generator is resumed after 'Calling tool', and
\* executeToolCall runs up to the await of a buffered tool, up to the first
\* suspension of a streaming tool, or to its end when the call fails before
\* the tool body.
Dispatch(i) ==
    /\ At(i, "L135")
    /\ LET r == inv[i]
           toolCall == r.toolCall
           registry == Registry(r.agent)
           fail(content) ==
               ToolCompleted(OnToolResponse(Cur, i,
                   createAssistantMessage("error", content, toolCall.threadId)), i)
       IN  IF toolCall.name \notin DOMAIN registry
           THEN /\ Commit(fail("Error: Tool '" \o toolCall.name \o "' not found"))
                /\ nextId' = nextId
           ELSE LET tool == registry[toolCall.name]
                    ran == [Cur EXCEPT !.iss[r.cur].ran =
                                IF tool.runWithStream THEN "runWithStream" ELSE "run"]
                IN  IF ~tool.run /\ ~tool.runWithStream
                    THEN /\ Commit(fail("Error: Tool '" \o toolCall.name
                                        \o "' does not have a 'run' or 'runWithStream' method."))
                         /\ nextId' = nextId
                    ELSE IF ~ParseOk(tool.parameters, toolCall.arguments)
                    THEN /\ Commit(ToolThrows(Cur, i,
                                      ParseError(tool.parameters, toolCall.arguments)))
                         /\ nextId' = nextId
                    ELSE IF tool.runWithStream /\ tool.agent # Undefined
                    THEN \* agent.tool.ts:27-28: the wrapped agent's generator starts
                         LET args == Validated(tool.parameters, toolCall.arguments)
                             message == createUserMessage(generateId(nextId),
                                            Unquote(args["message"]), Undefined)
                         IN  /\ Commit(StartGenerator(
                                    [ran EXCEPT !.inv[i].pc = "L73",
                                                !.inv[i].child = Len(inv) + 1],
                                    tools[tool.agent], tool.agent, i, <<message>>, DefaultMaxTurns,
                                    generateId(nextId + 1)))
                             /\ nextId' = nextId + 2
                    ELSE IF tool.runWithStream
                    THEN /\ Commit([ran EXCEPT !.inv[i].pc = "L73", !.inv[i].chunks = 0])
                         /\ nextId' = nextId
                    ELSE /\ Commit([ran EXCEPT !.inv[i].pc = "L77"])
                         /\ nextId' = nextId
    /\ UNCHANGED tools

\* agent.ts:77-78: the buffered tool resolves
ToolResolves(i, result) ==
    /\ At(i, "L77")
    /\ Commit(ToolCompleted(
           OnToolResponse([Cur EXCEPT !.iss[inv[i].cur].ret = result], i,
               createAssistantMessage("final_response", result, inv[i].toolCall.threadId)),
           i))
    /\ UNCHANGED <<tools, nextId>>

\* agent.ts:77, 80-88: the buffered tool rejects
ToolRejects(i, error) ==
    /\ At(i, "L77")
    /\ Commit(ToolThrows(Cur, i, error))
    /\ UNCHANGED <<tools, nextId>>

\* agent.ts:73-75: a streaming tool (not a wrapped agent) yields a message
StreamYields(i, type) ==
    /\ At(i, "L73")
    /\ inv[i].child = 0
    /\ inv[i].chunks < MaxChunks
    /\ Commit(OnToolResponse([Cur EXCEPT !.inv[i].chunks = @ + 1], i,
                  createAssistantMessage(type, "tick", "countdown-thread")))
    /\ UNCHANGED <<tools, nextId>>

\* agent.ts:73-75: the streaming tool's generator returns its string
StreamReturns(i, result) ==
    /\ At(i, "L73")
    /\ inv[i].child = 0
    /\ Commit(ToolCompleted([Cur EXCEPT !.iss[inv[i].cur].ret = result], i))
    /\ UNCHANGED <<tools, nextId>>

\* agent.ts:73, 80-88: the streaming tool's generator throws
StreamThrows(i, error) ==
    /\ At(i, "L73")
    /\ inv[i].child = 0
    /\ Commit(ToolThrows(Cur, i, error))
    /\ UNCHANGED <<tools, nextId>>

\* agent.ts:160-167: the answer is pushed, then 'completed' is yielded
Complete(i) ==
    /\ At(i, "L159")
    /\ LET r == inv[i]
           assistantMessage == [id |-> "assistant-" \o ToString(nextId), role |-> "assistant",
                                content |-> r.text, threadId |-> r.threadId,
                                tool_call_id |-> Undefined]
       IN  Commit(YieldEv([Cur EXCEPT !.inv[i].pc = "L167",
                                      !.inv[i].wrote = @ \cup {Len(conversationHistory[r.agent]) + 1},
                                      !.hist[r.agent] = Append(@, assistantMessage)], i,
                    createAssistantMessage("completed", "Agent run completed.", r.threadId)))
    /\ nextId' = nextId + 1
    /\ UNCHANGED tools

\* FinalResponse with the last message sent to the model as its content
FinalResponseOfRequest(i) ==
    /\ At(i, "L167") \/ At(i, "L192")
    /\ Commit(YieldEv([Cur EXCEPT !.inv[i].pc = IF inv[i].pc = "L167" THEN "L168" ELSE "L193"],
                      i, createAssistantMessage("final_response", Last(inv[i].sent).content,
                                                inv[i].threadId)))
    /\ UNCHANGED <<tools, nextId>>

\* agent.ts:168 and 193: the final_response event carries the answer
FinalResponse(i) ==
    /\ At(i, "L167") \/ At(i, "L192")
    /\ Commit(YieldEv([Cur EXCEPT !.inv[i].pc = IF inv[i].pc = "L167" THEN "L168" ELSE "L193"],
                      i, createAssistantMessage("final_response", inv[i].text,
                                                inv[i].threadId)))
    /\ UNCHANGED <<tools, nextId>>

\* agent.ts:169 and 194: return this.conversationHistory
Return(i) ==
    /\ At(i, "L168") \/ At(i, "L193")
    /\ Commit(ReturnOut(Cur, i))
    /\ UNCHANGED <<tools, nextId>>

\* agent.ts:178: after the warning, the 'Finalizing response...' log
Finalize(i) ==
    /\ At(i, "L176")
    /\ Commit(YieldEv([Cur EXCEPT !.inv[i].pc = "L178"], i,
                  createAssistantMessage("log", "Finalizing response...", inv[i].threadId)))
    /\ UNCHANGED <<tools, nextId>>

\* agent.ts:180-184: the forced adapter call
ForcedSend(i) ==
    /\ At(i, "L178")
    /\ LET lastMessage == Last(conversationHistory[inv[i].agent])
           outgoing == [lastMessage EXCEPT !.content = @ \o ConcludeSuffix]
       IN  inv' = [inv EXCEPT ![i].pc = "L181", ![i].sent = Append(@, outgoing)]
    /\ UNCHANGED <<tools, conversationHistory, issued, nextId>>

\* agent.ts:181: the forced call rejects outside any try block
ForcedRejects(i, error) ==
    /\ At(i, "L181")
    /\ Commit(ThrowOut(Cur, i, error))
    /\ UNCHANGED <<tools, nextId>>

\* ForcedResolves with the calls of the forced response dispatched like those
\* of a THINKING response
ForcedResolvesDispatching(i, text, calls) ==
    /\ At(i, "L181")
    /\ Len(issued) + Len(calls) <= MaxIssued
    /\ LET s1 == [Cur EXCEPT !.inv[i].functionCalls = calls, !.inv[i].call = 0,
                             !.inv[i].text = text, !.inv[i].ignored = Len(calls)]
       IN  IF Len(calls) > 0
           THEN Commit(YieldEv([s1 EXCEPT !.inv[i].pc = "L122"], i,
                    createAssistantMessage("log", "Detected function calls.", inv[i].threadId)))
           ELSE Commit(YieldEv([s1 EXCEPT !.inv[i].pc = "L159"], i,
                    createAssistantMessage("log", "Completed", inv[i].threadId)))
    /\ nextId' = nextId
    /\ UNCHANGED tools

\* agent.ts:185-192: the forced call resolves; result.response.functionCalls()
\* is never read, so the calls of the response are dropped (`ignored` keeps
\* their number for the record)
ForcedResolves(i, text, calls) ==
    /\ At(i, "L181")
    /\ LET r == inv[i]
           finalAssistantMessage == [id |-> "assistant-" \o ToString(nextId),
                                     role |-> "assistant", content |-> text,
                                     threadId |-> r.threadId, tool_call_id |-> Undefined]
       IN  Commit(YieldEv([Cur EXCEPT !.inv[i].pc = "L192", !.inv[i].text = text,
                                      !.inv[i].ignored = Len(calls),
                                      !.inv[i].wrote = @ \cup {Len(conversationHistory[r.agent]) + 1},
                                      !.hist[r.agent] = Append(@, finalAssistantMessage)], i,
                    createAssistantMessage("completed", "Agent run completed.", r.threadId)))
    /\ nextId' = nextId + 1
    /\ UNCHANGED tools

Step(i) ==
    \/ Send(i)
    \/ SendRejects(i, AdapterError)
    \/ Rethrow(i)
    \/ SendResolves(i, Text(nextId), <<>>)
    \/ At(i, "L119") /\ \E calls \in CallLists : SendResolves(i, Text(nextId), calls)
    \/ NextCall(i)
    \/ EndTurn(i)
    \/ Dispatch(i)
    \/ ToolResolves(i, ToolResult)
    \/ \E e \in ToolErrors : ToolRejects(i, e)
    \/ \E type \in ChunkTypes : StreamYields(i, type)
    \/ StreamReturns(i, StreamResult)
    \/ \E e \in StreamErrors : StreamThrows(i, e)
    \/ Complete(i)
    \/ FinalResponse(i)
    \/ Return(i)
    \/ Finalize(i)
    \/ ForcedSend(i)
    \/ ForcedRejects(i, AdapterError)
    \/ \E calls \in ForcedCallLists : ForcedResolves(i, Text(nextId), calls)

Call ==
    /\ Serialized
    /\ \E input \in Inputs("main"), maxTurns \in 0..MaxTurnsOpt : Run("main", input, maxTurns)

Next ==
    \/ Call
    \/ \E i \in DOMAIN inv : Running(i) /\ Step(i)

Spec == Init /\ [][Next]_vars

\* The application calls agent.addTool(name, toolFunction) on agent a, before
\* an invocation or while one is suspended (once per behaviour)
AddTool(a, name, toolFunction) ==
    /\ tools = InitialTools
    /\ tools' = [tools EXCEPT ![a] = addTool(@, name, toolFunction)]
    /\ UNCHANGED <<conversationHistory, inv, issued, nextId>>

\* one invocation by the application, around which addTool is called
RegistryCall ==
    /\ inv = <<>>
    /\ \E input \in Inputs("main"), maxTurns \in 0..MaxTurnsOpt : Run("main", input, maxTurns)

RegistryNext ==
    \/ \E t \in LaterTools : AddTool(t[1], t[2], t[3])
    \/ RegistryCall
    \/ \E i \in DOMAIN inv : Running(i) /\ Step(i)

RegistrySpec == Init /\ [][RegistryNext]_vars

\* The application calls runWithStream whether or not a generator it holds
\* has ended: nothing in Agent serializes invocations.
ConcurrentCall ==
    \E input \in Inputs("main"), maxTurns \in 0..MaxConcurrentTurns :
        Run("main", input, maxTurns)

ConcurrentNext ==
    \/ ConcurrentCall
    \/ \E i \in DOMAIN inv : Running(i) /\ Step(i) /\ Len(issued') <= MaxConcurrentIssued

ConcurrentSpec == Init /\ [][ConcurrentNext]_vars

\* messages arguments whose first message carries the instruction under
\* another role (createSystemMessage), next to those of Inputs
PreparingInputs(a) ==
    Inputs(a) \cup { << <<"system", Instruction(a)>>, <<"user", "Hi">> >> }

\* one invocation by the application, with any of the PreparingInputs
PreparingCall ==
    /\ inv = <<>>
    /\ \E input \in PreparingInputs("main"), maxTurns \in 0..MaxTurnsOpt :
          Run("main", input, maxTurns)

PreparingNext ==
    \/ PreparingCall
    \/ \E i \in DOMAIN inv : Running(i) /\ Step(i)

PreparingSpec == Init /\ [][PreparingNext]_vars

\* run() and createAgentTool drain the generator with `for await`: a
\* generator that can take a step is eventually resumed.
FairSpec == Spec /\ WF_vars(\E i \in DOMAIN inv : Running(i) /\ Step(i))

---------------------------------------------------------------------------
(* What the claims read *)

IsPrefix(p, q) == Len(p) <= Len(q) /\ SubSeq(q, 1, Len(p)) = p

Ended(i) == i \in DOMAIN inv /\ inv[i].status # "running"

\* the events of type t in a sequence of events
OfType(events, t) == {n \in DOMAIN events : events[n].type = t}

\* the positions of the tool-role entries of ToolCall id in a history
EntriesOf(history, id) ==
    {n \in DOMAIN history : history[n].role = "tool" /\ history[n].tool_call_id = id}

(* C1: for every sequence of invocations on one Agent the history is only
   extended at its end, and after each invocation, also one that ends by
   throwing, it is a strict extension of the history before that
   invocation. *)
C1_StrictExtension ==
    \A i \in DOMAIN inv :
        /\ IsPrefix(inv[i].before, conversationHistory[inv[i].agent])
        /\ Ended(i) =>
              Len(conversationHistory[inv[i].agent]) > Len(inv[i].before)

\* the part of C1 that holds of the code: every step leaves each history as
\* it was or extends it at its end
C1_AppendOnly ==
    [][\A a \in Agents : IsPrefix(conversationHistory[a], conversationHistory'[a])]_vars

(* C2: one runWithStream invocation makes at most maxTurns + 1 sendMessage
   calls, and, resumed whenever it can take a step, it ends (returns,
   throws, or is closed by createAgentTool after its final_response). *)
C2_BoundedAndEnds ==
    /\ [](\A i \in DOMAIN inv : Len(inv[i].sent) <= inv[i].maxTurns + 1)
    /\ <>[](\A i \in DOMAIN inv : Ended(i))

\* a generator that has made maxTurns + 1 sendMessage calls and has returned
C2_Witness ==
    \E i \in DOMAIN inv :
        /\ inv[i].status = "returned"
        /\ inv[i].maxTurns = 2
        /\ Len(inv[i].sent) = 3

Terminal(events) == {n \in DOMAIN events : IsToolResponse(events[n].type)}

Failed(k) == \E n \in DOMAIN issued[k].events : issued[k].events[n].type = "error"

(* C3: an invocation that returns has yielded exactly one final_response
   event, as its last event, right after its one completed event; the
   event's content is the content of the assistant message that is the
   last entry of the returned value, and the returned value is the whole
   history at the moment of the return. *)
C3_FinalResponse ==
    /\ [](\A i \in DOMAIN inv : inv[i].status = "returned" =>
            LET ev == inv[i].events
                n == Len(ev)
                ret == inv[i].retval
            IN  /\ n >= 2
                /\ OfType(ev, "final_response") = {n}
                /\ OfType(ev, "completed") = {n - 1}
                /\ ret # <<>>
                /\ Last(ret).role = "assistant"
                /\ Last(ret).threadId = inv[i].threadId
                /\ Last(ret).content = ev[n].content
                /\ IsPrefix(ret, conversationHistory[inv[i].agent]))
    /\ [][\A i \in DOMAIN inv :
            inv[i].status = "running" /\ inv'[i].status = "returned" =>
                /\ inv'[i].retval = conversationHistory'[inv[i].agent]
                /\ conversationHistory' = conversationHistory]_vars

\* a run that dispatched a tool, went back to THINKING and returned; and a
\* run that returned through FORCED_COMPLETION
C3_Witness ==
    /\ \E i \in DOMAIN inv :
          inv[i].status = "returned" /\ inv[i].pc = "L168" /\ inv[i].turn = 1
    /\ \E i \in DOMAIN inv : inv[i].status = "returned" /\ inv[i].pc = "L193"

(* C4: the event sequence of every finished dispatch holds exactly one
   terminal event (final_response or error), and so exactly one tool-role
   message is in the history for that call. *)
C4_OneTerminalEvent ==
    \A k \in DOMAIN issued : issued[k].done =>
        /\ Cardinality(Terminal(issued[k].events)) = 1
        /\ Cardinality(EntriesOf(conversationHistory[inv[issued[k].by].agent],
                                 issued[k].call.id)) = 1

(* C5: when a streaming tool completes with terminal string s, the last
   event of the dispatch is a final_response with content s, every event
   before it is one the tool yielded, and a tool-role message with content
   s is in the caller's history. *)
C5_StreamingResult ==
    \A k \in DOMAIN issued :
        issued[k].done /\ issued[k].ran = "runWithStream" /\ issued[k].ret # Undefined =>
            LET ev == issued[k].events
            IN  /\ ev # <<>>
                /\ Last(ev).type = "final_response"
                /\ Last(ev).content = issued[k].ret
                /\ \E n \in EntriesOf(conversationHistory[inv[issued[k].by].agent],
                                      issued[k].call.id) :
                       conversationHistory[inv[issued[k].by].agent][n].content = issued[k].ret

(* C6: every tool-role message in a history carries the id of exactly one
   ToolCall issued by the generator whose threadId it carries, and its
   content is the content of a final_response or error event of that
   call's dispatch. *)
C6_Correlation ==
    \A a \in Agents : \A n \in DOMAIN conversationHistory[a] :
        LET m == conversationHistory[a][n]
            calls == {k \in DOMAIN issued : issued[k].call.id = m.tool_call_id}
        IN  m.role = "tool" =>
                /\ Cardinality(calls) = 1
                /\ \A k \in calls :
                      /\ inv[issued[k].by].agent = a
                      /\ inv[issued[k].by].threadId = m.threadId
                      /\ issued[k].call.threadId = m.threadId
                      /\ \E e \in Terminal(issued[k].events) :
                            issued[k].events[e].content = m.content

\* a history with a tool-role message of a successful and of a failed call
C6_Witness ==
    \E n1, n2 \in DOMAIN conversationHistory["main"] :
        LET h == conversationHistory["main"]
        IN  /\ h[n1].role = "tool" /\ h[n1].content = ToolResult
            /\ h[n2].role = "tool" /\ h[n2].content = "Error: Tool 'missing' not found"

(* C7: the tool-role entries of the calls of one turn are in the history in
   request order: every entry of the call at position p of the response
   precedes every entry of the call at position q > p. *)
C7_RequestOrder ==
    \A k1, k2 \in DOMAIN issued :
        /\ issued[k1].by = issued[k2].by
        /\ issued[k1].turn = issued[k2].turn
        /\ issued[k1].index < issued[k2].index
        => LET h == conversationHistory[inv[issued[k1].by].agent]
           IN  \A n1 \in EntriesOf(h, issued[k1].call.id) :
               \A n2 \in EntriesOf(h, issued[k2].call.id) : n1 < n2

\* a turn of two calls, each with an entry in the history, the first call
\* being the slower one (a wrapped agent's whole run)
C7_Witness ==
    \E k1, k2 \in DOMAIN issued :
        /\ issued[k1].by = issued[k2].by
        /\ issued[k1].turn = issued[k2].turn
        /\ issued[k1].index = 1 /\ issued[k2].index = 2
        /\ issued[k1].call.name = "helper" /\ issued[k2].call.name = "double"
        /\ EntriesOf(conversationHistory["main"], issued[k1].call.id) # {}
        /\ EntriesOf(conversationHistory["main"], issued[k2].call.id) # {}

\* the calls generator i has issued
IssuedBy(i) == {k \in DOMAIN issued : issued[k].by = i}

(* C8: no generator is ended by a failing dispatch -- a generator that
   threw did so at the start of the call, after a failed THINKING
   sendMessage or at the forced sendMessage; after a failed dispatch
   every later call of the same response is issued, or the generator is
   still running that turn; and the step that ends a failed dispatch
   changes the histories only by appending tool-role entries of that
   call to the caller's history. *)
C8_ErrorIsolation ==
    /\ [](\A i \in DOMAIN inv :
            inv[i].status = "threw" => inv[i].pc \in {"L106", "L172", "L181"})
    /\ [](\A k \in DOMAIN issued : issued[k].done /\ Failed(k) =>
            LET g == inv[issued[k].by]
            IN  \A p \in (issued[k].index + 1)..issued[k].of :
                    \/ \E k2 \in IssuedBy(issued[k].by) :
                          issued[k2].turn = issued[k].turn /\ issued[k2].index = p
                    \/ /\ g.status = "running"
                       /\ g.turn = issued[k].turn
                       /\ g.pc \in {"L135", "L73", "L77", "L152"})
    /\ [][\A k \in DOMAIN issued :
            ~issued[k].done /\ issued'[k].done
            /\ (\E n \in DOMAIN issued'[k].events : issued'[k].events[n].type = "error")
            => LET a == inv[issued[k].by].agent
                   h == conversationHistory[a]
                   hh == conversationHistory'[a]
               IN  /\ IsPrefix(h, hh)
                   /\ \A n \in (Len(h) + 1)..Len(hh) :
                         hh[n].role = "tool" /\ hh[n].tool_call_id = issued[k].call.id
                   /\ \A b \in Agents \ {a} :
                         conversationHistory'[b] = conversationHistory[b]]_vars

\* a returned run in which the first call of a response failed in the tool
\* body and the second one was dispatched and succeeded
C8_Witness ==
    \E k1, k2 \in DOMAIN issued :
        /\ issued[k1].by = issued[k2].by /\ issued[k1].turn = issued[k2].turn
        /\ issued[k1].index = 1 /\ issued[k2].index = 2
        /\ issued[k1].ran = "run" /\ issued[k1].done /\ Failed(k1)
        /\ issued[k2].done /\ ~Failed(k2) /\ issued[k2].ret = ToolResult
        /\ inv[issued[k1].by].status = "returned"

(* C9: once a THINKING sendMessage has failed, the invocation has yielded
   exactly one error event, as its last event, and no completed or
   final_response event; it takes no step but the throw: it sends nothing
   more, issues no tool call and yields nothing more; and it ends by
   throwing. *)
C9_ThinkingFailure ==
    /\ [](\A i \in DOMAIN inv : inv[i].pc = "L172" =>
            /\ inv[i].status \in {"running", "threw"}
            /\ inv[i].events # <<>>
            /\ OfType(inv[i].events, "error") = {Len(inv[i].events)}
            /\ Last(inv[i].events).content = "Agent error: " \o ErrString(AdapterError)
            /\ OfType(inv[i].events, "completed") = {}
            /\ OfType(inv[i].events, "final_response") = {})
    /\ [][\A i \in DOMAIN inv : inv[i].pc = "L172" =>
            /\ inv'[i].pc = "L172"
            /\ inv'[i].status \in {inv[i].status, "threw"}
            /\ inv'[i].sent = inv[i].sent
            /\ inv'[i].events = inv[i].events
            /\ {k \in DOMAIN issued' : issued'[k].by = i} = IssuedBy(i)
            /\ \A k \in IssuedBy(i) : issued'[k] = issued[k]]_vars
    /\ <>[](\A i \in DOMAIN inv : inv[i].pc = "L172" => inv[i].status = "threw")

\* a run that threw after its second THINKING sendMessage failed, the first
\* turn having dispatched a tool
C9_Witness ==
    \E i \in DOMAIN inv :
        /\ inv[i].status = "threw" /\ inv[i].pc = "L172"
        /\ inv[i].turn = 1 /\ Len(inv[i].sent) = 2
        /\ IssuedBy(i) # {}

(* C10: when the forced sendMessage fails, the invocation has yielded an
   error event as its last event before it throws. *)
C10_ForcedFailure ==
    \A i \in DOMAIN inv :
        inv[i].status = "threw" /\ inv[i].pc = "L181" =>
            /\ inv[i].events # <<>>
            /\ Last(inv[i].events).type = "error"

\* the program points of FORCED_COMPLETION, agent.ts:176-194
ForcedPoints == {"L176", "L178", "L181", "L192", "L193"}

\* the types of the last n events of a generator
LastTypes(events, n) ==
    [k \in 1..n |-> events[Len(events) - n + k].type]

(* C11: a generator whose model asked for tools in each of its maxTurns
   THINKING iterations yields warn, then log, sends exactly one more
   message -- the last history entry with the conclude instruction appended
   to its content, the entry itself staying as it was -- appends the answer
   as an assistant message, yields completed and final_response and returns;
   from the warn event on it issues no tool call, whatever the forced
   response asks for. *)
C11_ForcedCompletion ==
    /\ [](\A i \in DOMAIN inv : inv[i].pc \in ForcedPoints =>
            LET r == inv[i]
                h == conversationHistory[r.agent]
            IN  /\ r.turn = r.maxTurns
                /\ \A k \in IssuedBy(i) : issued[k].turn < r.maxTurns /\ issued[k].done
                /\ \A t \in 0..(r.maxTurns - 1) : \E k \in IssuedBy(i) : issued[k].turn = t
                /\ r.pc = "L176" =>
                      Len(r.sent) = r.maxTurns /\ LastTypes(r.events, 1) = <<"warn">>
                /\ r.pc = "L178" =>
                      Len(r.sent) = r.maxTurns /\ LastTypes(r.events, 2) = <<"warn", "log">>
                /\ r.pc \in {"L181", "L192", "L193"} => Len(r.sent) = r.maxTurns + 1
                /\ r.status = "returned" =>
                      LET n == Len(r.retval)
                      IN  /\ LastTypes(r.events, 4) =
                                <<"warn", "log", "completed", "final_response">>
                          /\ n >= 2
                          /\ r.retval[n].role = "assistant"
                          /\ r.retval[n].content = r.text
                          /\ Last(r.events).content = r.text
                          /\ Last(r.sent) =
                                [r.retval[n - 1] EXCEPT !.content = @ \o ConcludeSuffix]
                          /\ Last(r.sent) # r.retval[n - 1])
    /\ [][\A i \in DOMAIN inv :
            inv[i].pc = "L178" /\ inv'[i].pc = "L181" =>
                /\ conversationHistory' = conversationHistory
                /\ Last(inv'[i].sent) =
                      [Last(conversationHistory[inv[i].agent])
                          EXCEPT !.content = @ \o ConcludeSuffix]]_vars

\* a run of two turns, each with a tool call, that returned through the
\* forced call, whose response asked for one more tool
C11_Witness ==
    \E i \in DOMAIN inv :
        /\ inv[i].status = "returned" /\ inv[i].pc = "L193"
        /\ inv[i].maxTurns = 2 /\ Cardinality(IssuedBy(i)) = 2
        /\ inv[i].ignored = 1

(* C12: the events the dispatcher emitted for a finished call are among the
   events the calling generator yielded, in the order emitted, between its
   'Calling tool: <name>' log and its 'Calling tool <name> completed.'
   log. *)
C12_EventsForwarded ==
    \A k \in DOMAIN issued : issued[k].done =>
        LET ev == inv[issued[k].by].events
            de == issued[k].events
            name == issued[k].call.name
        IN  \E a \in DOMAIN ev :
                /\ ev[a].content = "Calling tool: " \o name
                /\ a + Len(de) + 1 \in DOMAIN ev
                /\ \A n \in DOMAIN de : ev[a + n] = de[n]
                /\ ev[a + Len(de) + 1].content = "Calling tool " \o name \o " completed."

\* the messages the model has been given by generator i: the history its
\* session was started with and the messages sent since
GivenToModel(i) ==
    {inv[i].chat[n] : n \in DOMAIN inv[i].chat} \cup {inv[i].sent[n] : n \in DOMAIN inv[i].sent}

\* the texts executeToolCall reports for a failure of toolCall
FailureTexts(toolCall) ==
    {"Error: Tool '" \o toolCall.name \o "' not found",
     "Error: Tool '" \o toolCall.name \o "' does not have a 'run' or 'runWithStream' method."}
    \cup {CatchMessage(toolCall, e) : e \in ToolErrors \cup StreamErrors}
    \cup {CatchMessage(toolCall, ParseError(schema, toolCall.arguments)) :
             schema \in UNION {{tools[a][t].parameters : t \in DOMAIN tools[a]} : a \in Agents}}
    \cup {CatchMessage(toolCall, Err("Error", "Agent error: " \o ErrString(AdapterError)))}

\* the dispatch of issued call k reported a failure itself (agent.ts:54-69, 80-88)
FailedLocally(k) ==
    \E n \in DOMAIN issued[k].events :
        /\ issued[k].events[n].type = "error"
        /\ issued[k].events[n].content \in FailureTexts(issued[k].call)

(* C13: a failed dispatch leaves a tool-role entry with the call's id whose
   content is the failure text naming the tool, and once the generator has
   made a later adapter call, that entry is among the messages the model
   has been given (as sent, or with the conclude instruction appended). *)
C13_FailureReachesModel ==
    \A k \in DOMAIN issued :
        LET i == issued[k].by
            h == conversationHistory[inv[i].agent]
            entries == {n \in EntriesOf(h, issued[k].call.id) :
                            h[n].content \in FailureTexts(issued[k].call)}
        IN  issued[k].done /\ FailedLocally(k) =>
                /\ entries # {}
                /\ Len(inv[i].sent) > issued[k].turn + 1 =>
                      \E n \in entries :
                          \/ h[n] \in GivenToModel(i)
                          \/ [h[n] EXCEPT !.content = @ \o ConcludeSuffix] \in GivenToModel(i)

\* run with every event collected, whatever its type
allResponsesOfEveryEvent(events, n) ==
    [k \in 1..Len(events) |->
        [id |-> generateId(n + k - 1), role |-> "assistant",
         content |-> events[k].content, threadId |-> events[k].threadId]]

\* Agent.run, agent.ts:91-104: the array run builds from the events of the
\* generator it drains, one assistant message per final_response event; n is
\* where the id counter stands
allResponses(events, n) ==
    LET finals == SelectSeq(events, LAMBDA message : message.type = "final_response")
    IN  [k \in 1..Len(finals) |->
            [id |-> generateId(n + k - 1), role |-> "assistant",
             content |-> finals[k].content, threadId |-> finals[k].threadId]]

(* C14: for an invocation of the application that completes, run's result
   is exactly one assistant-role message whose content is the model's final
   answer, and no element of it has the content of an event of a tool
   dispatched during the invocation. *)
C14_RunResult ==
    \A i \in DOMAIN inv : inv[i].parent = 0 /\ inv[i].status = "returned" =>
        LET result == allResponses(inv[i].events, nextId)
        IN  /\ Len(result) = 1
            /\ result[1].role = "assistant"
            /\ result[1].content = inv[i].text
            /\ result[1].content = Last(inv[i].retval).content
            /\ result[1].threadId = inv[i].threadId
            /\ \A j \in DOMAIN result : \A k \in DOMAIN issued :
                  inv[issued[k].by].threadId = inv[i].threadId
                  \/ inv[issued[k].by].parent = i
                  => /\ result[j].content # issued[k].ret
                     /\ \A n \in DOMAIN issued[k].events :
                           result[j].content # issued[k].events[n].content

\* a completed invocation during which one tool succeeded and one failed
C14_Witness ==
    \E i \in DOMAIN inv :
        /\ inv[i].parent = 0 /\ inv[i].status = "returned"
        /\ \E k1, k2 \in IssuedBy(i) :
              /\ issued[k1].ret = ToolResult
              /\ issued[k2].done /\ FailedLocally(k2)

\* the positions of a history that hold the agent's instruction
InstructionAt(a) ==
    {n \in DOMAIN conversationHistory[a] : conversationHistory[a][n].content = Instruction(a)}

\* invocation i was given messages whose first element is the instruction:
\* ensureInstruction returned them as they were
GivenInstruction(i) ==
    LET h == conversationHistory[inv[i].agent]
        first == Len(inv[i].before) + 1
    IN  /\ inv[i].pc # "L106"
        /\ h[first].content = Instruction(inv[i].agent)
        /\ h[first].id # "system-prompt"

(* C15: when every invocation made on the agent was given messages whose
   first element is the instruction, the instruction is in the history at
   most once. *)
C15_InstructionOnce ==
    (\A i \in DOMAIN inv : inv[i].agent = "main" => GivenInstruction(i))
        => Cardinality(InstructionAt("main")) <= 1

\* the invocations made by the application or by a wrapping tool
Invocations == DOMAIN inv

(* C16: the threadIds of different invocations differ, every event an
   invocation yielded carries its threadId, and so does every history
   entry it wrote. *)
C16_ThreadGroups ==
    \A i \in Invocations :
        /\ \A j \in Invocations \ {i} : inv[j].threadId # inv[i].threadId
        /\ \A n \in DOMAIN inv[i].events : inv[i].events[n].threadId = inv[i].threadId
        /\ \A n \in inv[i].wrote :
              conversationHistory[inv[i].agent][n].threadId = inv[i].threadId

\* the history positions of the entries invocation i has sent to the model
\* (as they are, or with the conclude instruction appended)
SentPositions(i) ==
    LET h == conversationHistory[inv[i].agent]
    IN  {p \in DOMAIN h : \E n \in DOMAIN inv[i].sent :
            \/ inv[i].sent[n] = h[p]
            \/ inv[i].sent[n] = [h[p] EXCEPT !.content = @ \o ConcludeSuffix]}

\* invocations i and j of one agent overlapped
Overlapped(i, j) == i \in inv[j].during \/ j \in inv[i].during

\* invocation i sent, as its most recent message, an entry that invocation j wrote
SentEntryOf(i, j) == i # j /\ SentPositions(i) \cap inv[j].wrote # {}

(* C17: invocations whose steps interleave are not isolated from each
   other: an invocation can send to the model an entry that another
   invocation appended (the witness), and this happens to overlapping
   invocations only -- an entry an invocation sends is one it wrote itself
   or one written by an invocation that was running at the same time. *)
C17_UnsafeInterleaving ==
    \A i \in Invocations : \A p \in SentPositions(i) :
        \/ p \in inv[i].wrote
        \/ \E j \in Invocations : p \in inv[j].wrote /\ Overlapped(i, j)

\* the second invocation appended its messages while the first one was
\* suspended before its sendMessage, and the first one sent the second one's
\* user message
C17_Witness ==
    \E i, j \in Invocations :
        /\ inv[i].agent = inv[j].agent /\ i < j
        /\ SentEntryOf(i, j)
        /\ Len(inv[i].sent) = 1
        /\ Last(inv[i].sent).role = "user"

(* C18: no two entries of a history have the same id. *)
C18_UniqueIds ==
    \A a \in Agents : \A n1, n2 \in DOMAIN conversationHistory[a] :
        n1 # n2 => conversationHistory[a][n1].id # conversationHistory[a][n2].id

\* the 'not found' event of executeToolCall for a name
NotFound(name) == "Error: Tool '" \o name \o "' not found"

(* C19: a dispatch resolves the call's name, exactly as written, in the
   registry the agent has at that step: a name that is not a key gets the
   'not found' error, a name that is a key runs the method of the tool now
   stored under it; and a change of one agent's registry sets one name and
   leaves the other names and the other agents' registries as they were. *)
C19_RegistryAtDispatch ==
    /\ [][\A i \in DOMAIN inv :
            inv[i].status = "running" /\ inv[i].pc = "L135" /\ inv'[i] # inv[i] =>
                LET k == inv[i].cur
                    name == inv[i].toolCall.name
                    registry == tools[inv[i].agent]
                IN  IF name \notin DOMAIN registry
                    THEN /\ issued'[k].ran = Undefined
                         /\ \E n \in DOMAIN issued'[k].events :
                               issued'[k].events[n].content = NotFound(name)
                    ELSE /\ \A n \in DOMAIN issued'[k].events :
                               issued'[k].events[n].content # NotFound(name)
                         /\ (registry[name].run \/ registry[name].runWithStream)
                            /\ ParseOk(registry[name].parameters, inv[i].toolCall.arguments)
                            => issued'[k].ran =
                                  IF registry[name].runWithStream THEN "runWithStream" ELSE "run"]_vars
    /\ [][\A a \in Agents : tools'[a] # tools[a] =>
            /\ \A b \in Agents \ {a} : tools'[b] = tools[b]
            /\ DOMAIN tools[a] \subseteq DOMAIN tools'[a]
            /\ Cardinality({n \in DOMAIN tools'[a] :
                              n \notin DOMAIN tools[a] \/ tools'[a][n] # tools[a][n]}) = 1]_vars

\* a tool added while the invocation was suspended (its name was not among
\* the functions declared when the chat was started) is resolved and run by
\* a later dispatch of that invocation
C19_Witness ==
    \E k \in DOMAIN issued :
        /\ issued[k].call.name = "missing" /\ issued[k].by = 1
        /\ issued[k].ran = "run" /\ issued[k].ret = ToolResult
        /\ "missing" \notin inv[1].declared

(* C20: whenever a THINKING sendMessage is pending, the session it was sent
   on was started with the whole history except its last entry, and the
   message sent is that last entry. *)
C20_SessionHistory ==
    \A i \in DOMAIN inv : inv[i].status = "running" /\ inv[i].pc = "L119" =>
        LET h == conversationHistory[inv[i].agent]
        IN  /\ Last(inv[i].sent) = Last(h)
            /\ inv[i].chat = SliceButLast(h)

\* the arguments of a call have every key the schema of its tool names, each
\* with a literal of the schema's type
ArgumentsFit(schema, args) ==
    \A key \in schema.keys :
        /\ key \in DOMAIN args
        /\ schema.type = "number" => args[key] \in NumberLiterals
        /\ schema.type = "string" => args[key] \in StringLiterals

\* the tool registered for issued call k in the registry of its agent
Registered(k) == tools[inv[issued[k].by].agent][issued[k].call.name]

\* issued call k may reach its tool's body
Admissible(k) ==
    /\ issued[k].call.name \in DOMAIN tools[inv[issued[k].by].agent]
    /\ Registered(k).run \/ Registered(k).runWithStream
    /\ ArgumentsFit(Registered(k).parameters, issued[k].call.arguments)

(* C21: the body of a tool has been entered for a call only if the call's
   name is registered, the tool has run or runWithStream and the arguments
   fit its schema, and then through the method the tool has (a wrapped
   agent is given args.message as its user message); a finished call that
   is not admissible has exactly one event, an error, and its tool body was
   never entered. *)
C21_GuardedInvocation ==
    /\ \A k \in DOMAIN issued :
          /\ issued[k].ran # Undefined =>
                /\ Admissible(k)
                /\ issued[k].ran = IF Registered(k).runWithStream THEN "runWithStream" ELSE "run"
          /\ issued[k].done /\ ~Admissible(k) =>
                /\ issued[k].ran = Undefined
                /\ issued[k].ret = Undefined
                /\ Len(issued[k].events) = 1
                /\ issued[k].events[1].type = "error"
          /\ issued[k].done /\ Admissible(k) => issued[k].ran # Undefined
    /\ \A j \in DOMAIN inv : inv[j].parent # 0 =>
          LET k == inv[inv[j].parent].cur
          IN  \/ inv[inv[j].parent].child # j
              \/ /\ Admissible(k)
                 /\ inv[j].sent # <<>> =>
                       inv[j].sent[1].content = Unquote(issued[k].call.arguments["message"])

\* a finished call whose arguments fail the schema of its tool, and a finished
\* call of the same tool that ran its body
C21_Witness ==
    \E k1, k2 \in DOMAIN issued :
        /\ issued[k1].done /\ issued[k1].call.name = "double" /\ issued[k1].ran = Undefined
        /\ issued[k2].done /\ issued[k2].call.name = "double" /\ issued[k2].ran = "run"

\* the texts of an argument-validation report for toolCall, agent.ts:83
ValidationTexts(toolCall) ==
    {"Error: Invalid arguments for " \o toolSignature(toolCall) \o ": " \o e.message :
        e \in ToolErrors \cup StreamErrors
              \cup {ParseError(schema, toolCall.arguments) :
                       schema \in UNION {{tools[a][t].parameters : t \in DOMAIN tools[a]} : a \in Agents}}}

\* the dispatch of issued call k reported an argument-validation error
ReportedInvalid(k) ==
    \E n \in DOMAIN issued[k].events :
        /\ issued[k].events[n].type = "error"
        /\ issued[k].events[n].content \in ValidationTexts(issued[k].call)

(* C22: a finished call is reported as an argument-validation error exactly
   when its tool is registered with a method and its arguments fail the
   tool's schema; a call whose tool body was entered is never reported as a
   validation error, whatever the body throws. *)
C22_ValidationIffSchema ==
    \A k \in DOMAIN issued :
        issued[k].done =>
            /\ ReportedInvalid(k) <=>
                  /\ issued[k].call.name \in DOMAIN tools[inv[issued[k].by].agent]
                  /\ Registered(k).run \/ Registered(k).runWithStream
                  /\ ~ArgumentsFit(Registered(k).parameters, issued[k].call.arguments)
            /\ issued[k].ran # Undefined => ~ReportedInvalid(k)

\* the positions generator i wrote an assistant-role message to
AssistantWrites(i) ==
    {n \in inv[i].wrote : /\ n \in DOMAIN conversationHistory[inv[i].agent]
                          /\ conversationHistory[inv[i].agent][n].role = "assistant"}

\* the program points of the DISPATCHING branch, agent.ts:122-157
Dispatching == {"L122", "L135", "L73", "L77", "L152"}

(* C23: a response to a THINKING request takes the generator to the
   completion branch exactly when its function-call list is empty and to
   the dispatch branch otherwise, without touching history; a generator in
   the dispatch branch has a non-empty call list and has written no
   assistant message, although the response carried a text; the end of a
   dispatching turn leads to the next THINKING iteration while turns are
   left and to the forced completion otherwise, again without an assistant
   message. *)
C23_CompletionIffNoCalls ==
    /\ [](\A i \in DOMAIN inv :
            /\ inv[i].pc \in Dispatching =>
                  /\ inv[i].functionCalls # <<>>
                  /\ inv[i].text # ""
                  /\ AssistantWrites(i) = {}
            /\ inv[i].pc \in {"L159", "L167", "L168"} => inv[i].functionCalls = <<>>
            /\ inv[i].pc \in {"L117", "L119", "L176", "L178", "L181"} => AssistantWrites(i) = {})
    /\ [][\A i \in DOMAIN inv :
            /\ inv[i].pc = "L119" /\ inv'[i].pc \notin {"L119", "L172"} =>
                  /\ inv'[i].pc \in {"L122", "L159"}
                  /\ inv'[i].pc = "L159" <=> inv'[i].functionCalls = <<>>
                  /\ conversationHistory'[inv[i].agent] = conversationHistory[inv[i].agent]
            /\ inv[i].pc = "L152" /\ inv'[i].turn # inv[i].turn =>
                  /\ inv'[i].turn = inv[i].turn + 1
                  /\ inv'[i].pc = IF inv'[i].turn < inv[i].maxTurns THEN "L117" ELSE "L176"
                  /\ conversationHistory'[inv[i].agent] = conversationHistory[inv[i].agent]
            /\ inv[i].pc \in Dispatching /\ inv'[i].status = "running" =>
                  inv'[i].pc \in Dispatching \cup {"L117", "L176"}]_vars

\* after a turn that dispatched a call whose response also carried a text, a
\* generator is back at a THINKING iteration with no assistant message written
C23_Witness ==
    \E i \in DOMAIN inv :
        /\ inv[i].status = "running" /\ inv[i].pc = "L117" /\ inv[i].turn = 1
        /\ inv[i].text # "" /\ inv[i].functionCalls # <<>>
        /\ \E k \in IssuedBy(i) : issued[k].done /\ issued[k].turn = 0
        /\ AssistantWrites(i) = {}

\* the calls of generator i whose executeToolCall sequence is not exhausted
Pending(i) == {k \in IssuedBy(i) : ~issued[k].done}

(* C24: a generator has at most one call whose dispatch is not finished:
   it is its current call, every call it issued earlier is finished, and
   the generator is suspended inside the dispatch loop; no adapter request
   is pending or made while one of its calls is unfinished. *)
C24_OneCallAtATime ==
    /\ [](\A i \in DOMAIN inv :
            /\ Cardinality(Pending(i)) <= 1
            /\ \A k \in Pending(i) :
                  /\ k = inv[i].cur
                  /\ inv[i].pc \in {"L135", "L73", "L77"}
                  /\ \A e \in IssuedBy(i) : e < k => issued[e].done
            /\ inv[i].pc \in {"L119", "L181"} => Pending(i) = {})
    /\ [][\A i \in DOMAIN inv :
            i \in DOMAIN inv' /\ Len(inv'[i].sent) > Len(inv[i].sent) => Pending(i) = {}]_vars

\* the second call of a response is in its tool body after the first call
\* of that response ran its tool and finished
C24_Witness ==
    \E i \in DOMAIN inv : \E k1, k2 \in IssuedBy(i) :
        /\ issued[k1].turn = issued[k2].turn
        /\ issued[k1].index = 1 /\ issued[k2].index = 2
        /\ issued[k1].ran # Undefined /\ issued[k1].done
        /\ issued[k2].ran # Undefined /\ ~issued[k2].done

\* the block generator i appended at line 111 is the messages it was given,
\* behind a synthetic instruction message unless the content of the first of
\* them is the instruction
BlockOf(i, messages) ==
    LET h == conversationHistory[inv[i].agent]
        first == Len(inv[i].before) + 1
        own == messages[1].content = Instruction(inv[i].agent)
        size == IF own THEN Len(messages) ELSE Len(messages) + 1
    IN  /\ first + size - 1 <= Len(h)
        /\ first..(first + size - 1) \subseteq inv[i].wrote
        /\ h[first].content = Instruction(inv[i].agent)
        /\ SubSeq(h, IF own THEN first ELSE first + 1, first + size - 1) = messages

(* C25: the block of messages an invocation of the application appended to
   history starts with a message whose content is the instruction -- the
   first of the given messages when its content is the instruction, a
   synthetic message otherwise -- followed by the given messages, unchanged
   and in order. *)
C25_InstructionBlock ==
    \A i \in DOMAIN inv :
        inv[i].parent = 0 /\ inv[i].wrote # {} =>
            \E input \in PreparingInputs(inv[i].agent) \ {<<>>}, n \in 1..nextId :
                BlockOf(i, Messages(input, n))

\* the events of the dispatch of issued call k that carry a result or an error
ResultEvents(k) ==
    {n \in DOMAIN issued[k].events : issued[k].events[n].type \in {"final_response", "error"}}

\* the tool-role entries of issued call k in the history of its agent
ToolEntries(k) ==
    EntriesOf(conversationHistory[inv[issued[k].by].agent], issued[k].call.id)

(* C26: the tool-role entries of a call are, one for one and in order, the
   final_response and error events of its dispatch sequence, with the same
   content; an event of any other type (the log messages of a streaming
   tool, the log, warn and completed events of a wrapped agent) adds
   nothing to history. *)
C26_OnlyResultsRecorded ==
    /\ [](\A k \in DOMAIN issued :
            LET h == conversationHistory[inv[issued[k].by].agent]
            IN  /\ Cardinality(ToolEntries(k)) = Cardinality(ResultEvents(k))
                /\ \A n \in ResultEvents(k) : \E e \in ToolEntries(k) :
                      /\ h[e].content = issued[k].events[n].content
                      /\ Cardinality({m \in ResultEvents(k) : m < n})
                            = Cardinality({f \in ToolEntries(k) : f < e}))
    /\ [][\A k \in DOMAIN issued :
            LET a == inv[issued[k].by].agent
            IN  /\ k \in DOMAIN issued'
                /\ Len(issued'[k].events) > Len(issued[k].events)
                /\ Last(issued'[k].events).type \notin {"final_response", "error"}
                => conversationHistory'[a] = conversationHistory[a]]_vars

\* a finished call of the streaming tool whose only event was a log message
\* and that left no entry, next to a finished call of the wrapped agent with
\* log and completed events and no entry either
C26_Witness ==
    \E k1, k2 \in DOMAIN issued :
        /\ issued[k1].done /\ issued[k1].call.name = "countdown"
        /\ OfType(issued[k1].events, "log") # {} /\ ToolEntries(k1) = {}
        /\ issued[k2].done /\ issued[k2].call.name = "helper"
        /\ OfType(issued[k2].events, "log") # {} /\ OfType(issued[k2].events, "completed") # {}
        /\ ToolEntries(k2) = {}

\* the log event runWithStream yields with content
LogEvent(i, content) == createAssistantMessage("log", content, inv[i].threadId)

\* the THINKING iterations generator i has started: its 'Thinking...' events
Thinkings(i) == {n \in DOMAIN inv[i].events : inv[i].events[n] = LogEvent(i, "Thinking...")}

(* C27: in the events of one generator, the adapter request of a THINKING
   iteration directly follows that iteration's 'Thinking...' log event, one
   per request; a response with k calls yields the log event reporting k;
   each call is issued in request order with the log event naming its tool,
   right after the report of k (first call) or the completion log of the
   previous call; the tool is entered after that naming event; and the
   call is finished with its completion log, when its history entries are
   already written. *)
C27_EventOrder ==
    /\ [](\A i \in DOMAIN inv :
            inv[i].pc = "L119" => Cardinality(Thinkings(i)) = Len(inv[i].sent))
    /\ [][\A i \in DOMAIN inv : i \in DOMAIN inv' =>
            /\ inv'[i].pc = "L119" /\ Len(inv'[i].sent) > Len(inv[i].sent) =>
                  /\ inv[i].events # <<>>
                  /\ Last(inv[i].events) = LogEvent(i, "Thinking...")
                  /\ inv'[i].events = inv[i].events
            /\ inv[i].pc = "L119" /\ inv'[i].pc = "L122" =>
                  inv'[i].events = Append(inv[i].events,
                      LogEvent(i, "Detected " \o ToString(Len(inv'[i].functionCalls))
                                  \o " function calls."))
            /\ \A k \in DOMAIN issued' : issued'[k].by = i =>
                  LET name == issued'[k].call.name
                      index == issued'[k].index
                  IN  /\ k \notin DOMAIN issued =>
                            /\ inv'[i].events = Append(inv[i].events,
                                                       LogEvent(i, "Calling tool: " \o name))
                            /\ issued'[k].call.name = inv'[i].functionCalls[index].name
                            /\ index = 1 =>
                                  Last(inv[i].events) = LogEvent(i,
                                      "Detected " \o ToString(issued'[k].of) \o " function calls.")
                            /\ index > 1 =>
                                  \E e \in IssuedBy(i) :
                                      /\ issued[e].turn = issued'[k].turn
                                      /\ issued[e].index = index - 1
                                      /\ issued[e].done
                                      /\ Last(inv[i].events) = LogEvent(i,
                                            "Calling tool " \o issued[e].call.name \o " completed.")
                      /\ k \in DOMAIN issued /\ issued[k].ran = Undefined
                         /\ issued'[k].ran # Undefined =>
                            Last(inv[i].events) = LogEvent(i, "Calling tool: " \o name)
                      /\ k \in DOMAIN issued /\ ~issued[k].done /\ issued'[k].done =>
                            /\ inv'[i].events = Append(inv[i].events,
                                   LogEvent(i, "Calling tool " \o name \o " completed."))
                            /\ Cardinality(EntriesOf(conversationHistory'[inv[i].agent],
                                                     issued[k].call.id))
                                  = Cardinality({n \in DOMAIN issued'[k].events :
                                        issued'[k].events[n].type \in {"final_response", "error"}})]_vars

\* the events of a generator that dispatched a response with two calls and
\* started its next THINKING iteration
C27_Witness ==
    \E i \in DOMAIN inv :
        /\ Len(inv[i].events) = 7
        /\ inv[i].events[1] = LogEvent(i, "Thinking...")
        /\ inv[i].events[2] = LogEvent(i, "Detected 2 function calls.")
        /\ inv[i].events[3] = LogEvent(i, "Calling tool: double")
        /\ inv[i].events[4] = LogEvent(i, "Calling tool double completed.")
        /\ inv[i].events[5] = LogEvent(i, "Calling tool: countdown")
        /\ inv[i].events[6] = LogEvent(i, "Calling tool countdown completed.")
        /\ inv[i].events[7] = LogEvent(i, "Thinking...")

\* the history positions of the tool-role entries appended by the calls of
\* turn t of generator i
TurnEntries(i, t) ==
    UNION {ToolEntries(k) : k \in {e \in IssuedBy(i) : issued[e].turn = t}}

\* the requests of generator i made at line 119: one per THINKING iteration
ThinkingRequests(i) == {n \in DOMAIN inv[i].sent : n <= inv[i].maxTurns}

(* C28: the message of every THINKING request is the last history entry at
   that moment; after a turn whose calls appended tool-role entries the
   next request carries the last of them only, and after a turn whose
   calls appended none it carries the same message as the request before. *)
C28_LastEntrySent ==
    /\ [](\A i \in DOMAIN inv : \A n \in ThinkingRequests(i) :
            n + 1 \in ThinkingRequests(i) =>
                LET h == conversationHistory[inv[i].agent]
                    entries == TurnEntries(i, n - 1)
                IN  IF entries = {}
                    THEN inv[i].sent[n + 1] = inv[i].sent[n]
                    ELSE /\ inv[i].sent[n + 1] = h[CHOOSE e \in entries : \A f \in entries : f <= e]
                         /\ inv[i].sent[n + 1] # inv[i].sent[n])
    /\ [][\A i \in DOMAIN inv :
            /\ i \in DOMAIN inv'
            /\ inv'[i].pc = "L119"
            /\ Len(inv'[i].sent) > Len(inv[i].sent)
            => /\ inv'[i].sent = Append(inv[i].sent, Last(conversationHistory[inv[i].agent]))
               /\ Len(inv'[i].sent) = inv[i].turn + 1]_vars

\* one generator whose first turn left two tool-role entries and whose next
\* request carried the last of them, and one whose first turn called the
\* streaming tool, left no entry, and whose next request repeated the first
C28_Witness ==
    \E i, j \in DOMAIN inv :
        /\ Len(inv[i].sent) = 2 /\ inv[i].maxTurns = 2
        /\ Cardinality(TurnEntries(i, 0)) = 2
        /\ inv[i].sent[2].role = "tool"
        /\ Len(inv[j].sent) = 2 /\ inv[j].maxTurns = 2
        /\ \E k \in IssuedBy(j) : issued[k].turn = 0 /\ issued[k].call.name = "countdown"
        /\ TurnEntries(j, 0) = {}
        /\ inv[j].sent[2] = inv[j].sent[1]

\* the generators working on the history of agent a
GeneratorsOn(a) == {i \in DOMAIN inv : inv[i].agent = a}

(* C29: whatever the interleaving of the invocations of one Agent, every
   step leaves each history as it was or extends it at its end, and the
   positions a generator writes are new ones beyond the end of the history
   it found; so every position of a history was written by exactly one
   generator and no written position is lost. *)
C29_NoLostAppend ==
    /\ [](\A a \in Agents :
            /\ DOMAIN conversationHistory[a] = UNION {inv[i].wrote : i \in GeneratorsOn(a)}
            /\ \A i, j \in GeneratorsOn(a) : i # j => inv[i].wrote \cap inv[j].wrote = {})
    /\ [][/\ \A a \in Agents : IsPrefix(conversationHistory[a], conversationHistory'[a])
          /\ \A i \in DOMAIN inv' :
                LET old == IF i \in DOMAIN inv THEN inv[i].wrote ELSE {}
                IN  /\ old \subseteq inv'[i].wrote
                    /\ \A n \in inv'[i].wrote \ old :
                          /\ n > Len(conversationHistory[inv'[i].agent])
                          /\ n <= Len(conversationHistory'[inv'[i].agent])]_vars

\* two invocations of the application on one agent overlapped and their
\* appends interleaved: the first wrote its block, then the second wrote
\* its block, then the first appended a tool message or its answer
C29_Witness ==
    \E i, j \in GeneratorsOn("main") :
        /\ i < j /\ inv[i].parent = 0 /\ inv[j].parent = 0
        /\ Overlapped(i, j)
        /\ \E p1, p2 \in inv[i].wrote : \E q \in inv[j].wrote : p1 < q /\ q < p2

(* C30: an invocation by the application with an empty messages array (the
   one call that takes a single id) throws at once: the generator has
   yielded no event and made no adapter request, and the step leaves every
   history, the registry and the issued calls as they were; nothing changes
   for that generator afterwards. *)
C30_EmptyMessages ==
    /\ [][\A i \in DOMAIN inv' \ DOMAIN inv :
            inv'[i].parent = 0 /\ nextId' = nextId + 1 =>
                /\ inv'[i].status = "threw"
                /\ inv'[i].pc = "L106"
                /\ inv'[i].error.name = "TypeError"
                /\ inv'[i].events = <<>>
                /\ inv'[i].sent = <<>>
                /\ inv'[i].wrote = {}
                /\ conversationHistory' = conversationHistory
                /\ tools' = tools
                /\ issued' = issued]_vars
    /\ [](\A i \in DOMAIN inv : inv[i].pc = "L106" =>
            /\ inv[i].status = "threw"
            /\ inv[i].events = <<>> /\ inv[i].sent = <<>> /\ inv[i].wrote = {}
            /\ IssuedBy(i) = {})

\* after an invocation that returned, an invocation with an empty messages
\* array threw and the history is the one the first invocation left
C30_Witness ==
    \E i, j \in DOMAIN inv :
        /\ i < j
        /\ inv[i].status = "returned"
        /\ inv[j].status = "threw" /\ inv[j].pc = "L106" /\ inv[j].events = <<>>
        /\ inv[j].before = conversationHistory[inv[j].agent]
        /\ inv[j].before = inv[i].retval

====
